---- MODULE Spec2Model ----
(***************************************************************************)
(* Graph / Flow builder: the two Streamlit scripts                         *)
(*   app_graph_visual_diagram_builder.py  (variant "builder": generated    *)
(*       node ids, edge direction, self-loop rejection)                    *)
(*   app_graph_viz.py                     (variant "viz": caller-supplied  *)
(*       node ids, upsert, no direction)                                   *)
(* A script run is executed top to bottom; pc is the section of the        *)
(* script the run has reached.  The values the widgets return in a run     *)
(* (which button is pressed, text inputs, select boxes, the uploaded file) *)
(* are the inputs of the run and are drawn with \E.  At most one button    *)
(* returns True in a run (clicked).  An uncaught Python exception ends     *)
(* the run where it is raised.  The widgets are taken by their contract    *)
(* only: a text input returns a string, a select box one of its options,   *)
(* and a widget key may be used once in a run.                             *)
(* "last" records the step just taken with its inputs and message, "prev"  *)
(* the store on entry of that step, "imported" whether an upload has       *)
(* replaced the store.                                                     *)
(***************************************************************************)
EXTENDS Integers, Sequences, FiniteSets, TLC

VARIABLES variant, nodes, edges, pc, clicked, json_str, shown, last, prev, imported

vars == <<variant, nodes, edges, pc, clicked, json_str, shown, last, prev, imported>>

\* ---------------------------------------------------------------- bounds
MaxNodes == 2
MaxEdges == 1

\* ------------------------------------------------------- input domains
Variants == {"builder", "viz"}
NodeLabels == {"", "go"}
EdgeLabels == {"go"}
IdInputs == {"", " ", "N1", "N2"}
Directions == {"directed", "bidirected", "undirected"}
Blank == {"", " "}

\* ------------------------------------------------------------- helpers
Strip(s) == IF s \in Blank THEN "" ELSE s

Or(a, b) == IF a # "" THEN a ELSE b

Range(s) == {s[i] : i \in 1..Len(s)}

RECURSIVE Dedup(_)
Dedup(s) ==
  IF s = <<>> THEN <<>>
  ELSE LET front == Dedup(SubSeq(s, 1, Len(s) - 1))
           x == s[Len(s)]
       IN IF x \in Range(front) THEN front ELSE Append(front, x)

next_node_id(ns) == "N" \o ToString(Len(ns) + 1)

get_node_ids(ns) == [i \in 1..Len(ns) |-> ns[i].id]

\* ----------------------------------------------------- adjacency list
AdjFail == [ok |-> FALSE, adj |-> <<>>]

AdjAppend(adj, k, x) ==
  IF k \in DOMAIN adj
  THEN [ok |-> TRUE, adj |-> [adj EXCEPT ![k] = Append(@, x)]]
  ELSE AdjFail

\* one iteration of the loop of the builder variant (KeyError = not ok)
AdjStepBuilder(adj, e) ==
  IF ~({"source", "target", "direction"} \subseteq DOMAIN e) THEN AdjFail
  ELSE LET s == e.source
           t == e.target
           d == e.direction
           a1 == IF d \in {"directed", "bidirected", "undirected"}
                 THEN AdjAppend(adj, s, t)
                 ELSE [ok |-> TRUE, adj |-> adj]
       IN IF ~a1.ok THEN AdjFail
          ELSE IF d \in {"bidirected", "undirected"}
               THEN AdjAppend(a1.adj, t, s)
               ELSE a1

\* one iteration of the loop of the viz variant
AdjStepViz(adj, e) ==
  IF ~({"source", "target"} \subseteq DOMAIN e) THEN AdjFail
  ELSE AdjAppend(adj, e.source, e.target)

RECURSIVE AdjScan(_, _, _, _)
AdjScan(v, adj, es, i) ==
  IF i > Len(es) THEN [ok |-> TRUE, adj |-> adj]
  ELSE LET r == IF v = "builder" THEN AdjStepBuilder(adj, es[i])
                ELSE AdjStepViz(adj, es[i])
       IN IF r.ok THEN AdjScan(v, r.adj, es, i + 1) ELSE AdjFail

build_adjacency_list(v, ns, es) ==
  AdjScan(v, [k \in Range(get_node_ids(ns)) |-> <<>>], es, 1)

\* build_graphviz: only whether it raises KeyError is modelled
build_graphviz_ok(v, ns, es) ==
  /\ \A i \in 1..Len(ns) : {"id", "label"} \subseteq DOMAIN ns[i]
  /\ \A i \in 1..Len(es) :
       IF v = "builder"
       THEN {"source", "target", "direction", "label"} \subseteq DOMAIN es[i]
       ELSE {"source", "target"} \subseteq DOMAIN es[i]

\* ------------------------------------------------------------- JSON
\* A JSON text is a tagged tree; an object is the sequence of its
\* <<key, value>> members in document order.
JStr(s) == [t |-> "string", v |-> s]
JArr(s) == [t |-> "array", v |-> s]
JObj(m) == [t |-> "object", v |-> m]
Garbage == [t |-> "garbage", v |-> <<>>]
NoJson == [t |-> "none", v |-> <<>>]

KeyOrder == <<"id", "source", "target", "direction", "label">>

RECURSIVE DumpMembers(_, _)
DumpMembers(d, i) ==
  IF i > Len(KeyOrder) THEN <<>>
  ELSE IF KeyOrder[i] \in DOMAIN d
       THEN <<<<KeyOrder[i], JStr(d[KeyOrder[i]])>>>> \o DumpMembers(d, i + 1)
       ELSE DumpMembers(d, i + 1)

DumpDict(d) == JObj(DumpMembers(d, 1))

DumpList(s) == JArr([i \in 1..Len(s) |-> DumpDict(s[i])])

DumpAdj(ns, adj) ==
  LET keys == Dedup(get_node_ids(ns))
  IN JObj([i \in 1..Len(keys) |->
             <<keys[i], JArr([j \in 1..Len(adj[keys[i]]) |-> JStr(adj[keys[i]][j])])>>])

\* faulty variant: the edges are left out of the exported document
json_dumps_NoEdges(ns, es, adj) ==
  JObj(<< <<"nodes", DumpList(ns)>>,
          <<"adjacency_list", DumpAdj(ns, adj)>> >>)

json_dumps(ns, es, adj) ==
  JObj(<< <<"nodes", DumpList(ns)>>,
          <<"edges", DumpList(es)>>,
          <<"adjacency_list", DumpAdj(ns, adj)>> >>)

MemberKeys(m) == {m[i][1] : i \in 1..Len(m)}

\* a repeated key keeps its last value
LastMember(m, k) ==
  LET i == CHOOSE i \in 1..Len(m) :
             /\ m[i][1] = k
             /\ \A j \in (i + 1)..Len(m) : m[j][1] # k
  IN m[i][2]

RECURSIVE PyOf(_)
PyOf(j) ==
  CASE j.t = "string" -> j.v
    [] j.t = "array"  -> [i \in 1..Len(j.v) |-> PyOf(j.v[i])]
    [] j.t = "object" -> [k \in MemberKeys(j.v) |-> PyOf(LastMember(j.v, k))]

json_load(file) ==
  IF file.t = "garbage" THEN [ok |-> FALSE, isdict |-> FALSE, data |-> <<>>]
  ELSE [ok |-> TRUE, isdict |-> (file.t = "object"), data |-> PyOf(file)]

DictGet(d, k, default) == IF k \in DOMAIN d THEN d[k] ELSE default

\* faulty variant: the nodes are replaced before the failure is detected
LoadGraph_Partial(ns, es, file) ==
  LET r == json_load(file)
  IN IF ~r.ok THEN [nodes |-> ns, edges |-> es, msg |-> "error"]
     ELSE IF ~r.isdict THEN [nodes |-> <<>>, edges |-> es, msg |-> "error"]
     ELSE [nodes |-> DictGet(r.data, "nodes", <<>>),
           edges |-> DictGet(r.data, "edges", <<>>),
           msg |-> "success"]

\* the try block of the upload handler
LoadGraph(ns, es, file) ==
  LET r == json_load(file)
  IN IF ~r.ok \/ ~r.isdict
     THEN [nodes |-> ns, edges |-> es, msg |-> "error"]
     ELSE [nodes |-> DictGet(r.data, "nodes", <<>>),
           edges |-> DictGet(r.data, "edges", <<>>),
           msg |-> "success"]

\* ------------------------------------------------------ uploaded files
NodeJ(id, label) == JObj(<< <<"id", JStr(id)>>, <<"label", JStr(label)>> >>)

EdgeJ(s, t, d, l) ==
  JObj(<< <<"source", JStr(s)>>, <<"target", JStr(t)>>,
          <<"direction", JStr(d)>>, <<"label", JStr(l)>> >>)

EdgeJNoDir(s, t, l) ==
  JObj(<< <<"source", JStr(s)>>, <<"target", JStr(t)>>, <<"label", JStr(l)>> >>)

GraphJ(ns, es) == JObj(<< <<"nodes", JArr(ns)>>, <<"edges", JArr(es)>> >>)

TwoNodesJ == <<NodeJ("N1", ""), NodeJ("N2", "go")>>

ThreeNodesJ == <<NodeJ("N1", ""), NodeJ("N2", "go"), NodeJ("N3", "")>>

Files ==
  << Garbage,                                                   \* not JSON
     JArr(<<>>),                                                \* []
     JObj(<<>>),                                                \* {}
     JObj(<< <<"nodes", JArr(ThreeNodesJ)>>,
             <<"edges", JArr(<<EdgeJ("N1", "N2", "directed", "go"),
                               EdgeJ("N1", "N2", "undirected", ""),
                               EdgeJ("N2", "N3", "undirected", "")>>)>>,
             <<"adjacency_list",
               JObj(<< <<"N1", JArr(<<JStr("N2"), JStr("N2")>>)>>,
                       <<"N2", JArr(<<JStr("N1"), JStr("N3")>>)>>,
                       <<"N3", JArr(<<JStr("N2")>>)>> >>)>> >>),
     GraphJ(<<NodeJ("N1", "")>>, <<EdgeJ("N9", "N1", "directed", "")>>),
     GraphJ(<<NodeJ("N1", ""), NodeJ("N1", "go")>>, <<>>),
     GraphJ(TwoNodesJ, <<EdgeJNoDir("N1", "N2", "")>>),
     GraphJ(TwoNodesJ, <<EdgeJ("N1", "N2", "dashed", "")>>) >>

\* ---------------------------------------------------------------- state
Store == [nodes |-> nodes, edges |-> edges]

Did(op, id, arg, msg) ==
  /\ last' = [op |-> op, id |-> id, arg |-> arg, msg |-> msg]
  /\ prev' = Store

Init ==
  /\ variant \in Variants
  /\ nodes = <<>>
  /\ edges = <<>>
  /\ pc = "nodes"
  /\ clicked = FALSE
  /\ json_str = NoJson
  /\ shown = NoJson
  /\ last = [op |-> "init", id |-> "", arg |-> "", msg |-> ""]
  /\ prev = [nodes |-> <<>>, edges |-> <<>>]
  /\ imported = FALSE

\* ------------------------------------------------------ store updates
SetLabel(n, l) == [k \in DOMAIN n \cup {"label"} |-> IF k = "label" THEN l ELSE n[k]]

ApplyLabels(ns, new_labels) == [i \in 1..Len(ns) |-> SetLabel(ns[i], new_labels[ns[i].id])]

RemoveNode(ns, id) == SelectSeq(ns, LAMBDA n : n.id # id)

\* faulty variants: the cascade looks at one end of the edge only
RemoveIncident_SourceOnly(es, id) == SelectSeq(es, LAMBDA e : e.source # id)

RemoveIncident_TargetOnly(es, id) == SelectSeq(es, LAMBDA e : e.target # id)

RemoveIncident(es, id) == SelectSeq(es, LAMBDA e : e.source # id /\ e.target # id)

FirstIndex(ns, id) == CHOOSE i \in 1..Len(ns) : ns[i].id = id /\ \A j \in 1..(i - 1) : ns[j].id # id

\* faulty variant: no lookup of an existing node
Upsert_AlwaysAppend(ns, node_id, node_label) ==
  Append(ns, [id |-> node_id, label |-> Or(node_label, node_id)])

Upsert(ns, node_id, node_label) ==
  IF \E i \in 1..Len(ns) : ns[i].id = node_id
  THEN [ns EXCEPT ![FirstIndex(ns, node_id)] = SetLabel(@, Or(node_label, node_id))]
  ELSE Append(ns, [id |-> node_id, label |-> Or(node_label, node_id)])

\* faulty variant: no check of source against target
add_edge_NoCheck(es, src, dst, direction, edge_label) ==
  [edges |-> Append(es, [source |-> src, target |-> dst,
                         direction |-> direction, label |-> edge_label]),
   msg |-> ""]

\* the body of the builder's "Add edge" button
add_edge(es, src, dst, direction, edge_label) ==
  IF src = dst
  THEN [edges |-> es, msg |-> "warning"]
  ELSE [edges |-> Append(es, [source |-> src, target |-> dst,
                              direction |-> direction, label |-> edge_label]),
        msg |-> ""]

\* ------------------------------------------- builder: node section
AddNode ==
  /\ variant = "builder" /\ pc = "nodes" /\ ~clicked
  /\ Len(nodes) < MaxNodes
  /\ nodes' = Append(nodes, [id |-> next_node_id(nodes), label |-> ""])
  /\ clicked' = TRUE
  /\ pc' = "labels"
  /\ shown' = NoJson
  /\ Did("add_node", next_node_id(nodes), "", "")
  /\ UNCHANGED <<variant, edges, json_str, imported>>

NoNodeButton ==
  /\ pc = "nodes"
  /\ pc' = IF variant = "builder" THEN "labels" ELSE "edges"
  /\ shown' = NoJson
  /\ Did("none", "", "", "")
  /\ UNCHANGED <<variant, nodes, edges, clicked, json_str, imported>>

\* The label inputs are keyed "node_label_<id>"; a key used twice in one run
\* makes st.text_input raise DuplicateWidgetID, which ends the run before any
\* label is applied.
UpdateLabels ==
  /\ variant = "builder" /\ pc = "labels"
  /\ IF nodes = <<>>
     THEN /\ pc' = "edges"
          /\ Did("labels", "", "", "info")
          /\ UNCHANGED <<nodes, clicked>>
     ELSE IF Cardinality(Range(get_node_ids(nodes))) # Len(nodes)
     THEN /\ pc' = "nodes"
          /\ clicked' = FALSE
          /\ Did("labels", "", "", "exception")
          /\ UNCHANGED nodes
     ELSE \E new_labels \in [Range(get_node_ids(nodes)) -> NodeLabels] :
            /\ nodes' = ApplyLabels(nodes, new_labels)
            /\ pc' = "delete"
            /\ Did("labels", "", "", "")
            /\ UNCHANGED clicked
  /\ UNCHANGED <<variant, edges, json_str, shown, imported>>

DeleteSelectedNode ==
  /\ variant = "builder" /\ pc = "delete" /\ ~clicked
  /\ \E del_id \in Range(get_node_ids(nodes)) :
       /\ nodes' = RemoveNode(nodes, del_id)
       /\ edges' = RemoveIncident(edges, del_id)
       /\ Did("delete_node", del_id, "", "")
  /\ clicked' = TRUE
  /\ pc' = "nodes"
  /\ UNCHANGED <<variant, json_str, shown, imported>>

NoDelete ==
  /\ variant = "builder" /\ pc = "delete"
  /\ pc' = "edges"
  /\ Did("none", "", "", "")
  /\ UNCHANGED <<variant, nodes, edges, clicked, json_str, shown, imported>>

\* ------------------------------------------- builder: edge section
AddEdgeBuilder ==
  /\ variant = "builder" /\ pc = "edges" /\ ~clicked
  /\ Len(get_node_ids(nodes)) >= 2
  /\ \E src \in Range(get_node_ids(nodes)), dst \in Range(get_node_ids(nodes)),
        direction \in Directions, edge_label \in EdgeLabels :
       LET r == add_edge(edges, src, dst, direction, edge_label)
       IN /\ (r.msg = "warning" \/ Len(edges) < MaxEdges)
          /\ edges' = r.edges
          /\ Did("add_edge", src, dst, r.msg)
  /\ clicked' = TRUE
  /\ pc' = "export"
  /\ UNCHANGED <<variant, nodes, json_str, shown, imported>>

ClearEdgesBuilder ==
  /\ variant = "builder" /\ pc = "edges" /\ ~clicked
  /\ Len(get_node_ids(nodes)) >= 2
  /\ edges # <<>>
  /\ edges' = <<>>
  /\ clicked' = TRUE
  /\ pc' = "export"
  /\ Did("clear_edges", "", "", "")
  /\ UNCHANGED <<variant, nodes, json_str, shown, imported>>

NoEdgeButton ==
  /\ pc = "edges"
  /\ pc' = "export"
  /\ Did("none", "", "", IF Len(get_node_ids(nodes)) < 2 THEN "info" ELSE "")
  /\ UNCHANGED <<variant, nodes, edges, clicked, json_str, shown, imported>>

\* ------------------------------------------------- viz: node section
AddUpdateNode ==
  /\ variant = "viz" /\ pc = "nodes" /\ ~clicked
  /\ \E node_id \in IdInputs, node_label \in NodeLabels :
       IF Strip(node_id) = ""
       THEN /\ Did("add_update_node", node_id, node_label, "warning")
            /\ UNCHANGED nodes
       ELSE /\ (node_id \in Range(get_node_ids(nodes)) \/ Len(nodes) < MaxNodes)
            /\ nodes' = Upsert(nodes, node_id, node_label)
            /\ Did("add_update_node", node_id, node_label, "")
  /\ clicked' = TRUE
  /\ pc' = "edges"
  /\ shown' = NoJson
  /\ UNCHANGED <<variant, edges, json_str, imported>>

DeleteNode ==
  /\ variant = "viz" /\ pc = "nodes" /\ ~clicked
  /\ \E node_id \in IdInputs :
       IF Strip(node_id) = ""
       THEN /\ Did("delete_node", node_id, "", "warning")
            /\ UNCHANGED <<nodes, edges>>
       ELSE /\ nodes' = RemoveNode(nodes, node_id)
            /\ edges' = RemoveIncident(edges, node_id)
            /\ Did("delete_node", node_id, "", "")
  /\ clicked' = TRUE
  /\ pc' = "edges"
  /\ shown' = NoJson
  /\ UNCHANGED <<variant, json_str, imported>>

\* ------------------------------------------------- viz: edge section
AddEdgeViz ==
  /\ variant = "viz" /\ pc = "edges" /\ ~clicked
  /\ Len(get_node_ids(nodes)) >= 2
  /\ Len(edges) < MaxEdges
  /\ \E src \in Range(get_node_ids(nodes)), dst \in Range(get_node_ids(nodes)),
        edge_label \in EdgeLabels :
       /\ edges' = Append(edges, [source |-> src, target |-> dst, label |-> edge_label])
       /\ Did("add_edge", src, dst, "")
  /\ clicked' = TRUE
  /\ pc' = "export"
  /\ UNCHANGED <<variant, nodes, json_str, shown, imported>>

ClearEdgesViz ==
  /\ variant = "viz" /\ pc = "edges" /\ ~clicked
  /\ Len(get_node_ids(nodes)) >= 2
  /\ edges' = <<>>
  /\ clicked' = TRUE
  /\ pc' = "export"
  /\ Did("clear_edges", "", "", "")
  /\ UNCHANGED <<variant, nodes, json_str, shown, imported>>

\* ------------------------------------------------- export / import
Export ==
  /\ pc = "export"
  /\ LET r == build_adjacency_list(variant, nodes, edges)
     IN IF r.ok
        THEN /\ json_str' = json_dumps(nodes, edges, r.adj)
             /\ pc' = "import"
             /\ Did("export", "", "", "")
             /\ UNCHANGED clicked
        ELSE /\ json_str' = NoJson
             /\ pc' = "nodes"
             /\ clicked' = FALSE
             /\ Did("export", "", "", "exception")
  /\ UNCHANGED <<variant, nodes, edges, shown, imported>>

LoadGraphJson ==
  /\ pc = "import"
  /\ \E i \in 1..Len(Files) :
       LET r == LoadGraph(nodes, edges, Files[i])
       IN /\ nodes' = r.nodes
          /\ edges' = r.edges
          /\ imported' = (imported \/ r.msg = "success")
          /\ Did("import", i, "", r.msg)
  /\ pc' = "render"
  /\ UNCHANGED <<variant, clicked, json_str, shown>>

NoUpload ==
  /\ pc = "import"
  /\ pc' = "render"
  /\ Did("none", "", "", "")
  /\ UNCHANGED <<variant, nodes, edges, clicked, json_str, shown, imported>>

\* ------------------------------------------------------ right column
GraphPreview ==
  /\ pc = "render"
  /\ IF nodes = <<>>
     THEN /\ shown' = NoJson
          /\ Did("render", "", "", "info")
     ELSE IF /\ build_graphviz_ok(variant, nodes, edges)
             /\ build_adjacency_list(variant, nodes, edges).ok
          THEN /\ shown' = json_str
               /\ Did("render", "", "", "")
          ELSE /\ shown' = NoJson
               /\ Did("render", "", "", "exception")
  /\ json_str' = NoJson
  /\ clicked' = FALSE
  /\ pc' = "nodes"
  /\ UNCHANGED <<variant, nodes, edges, imported>>

Next ==
  \/ AddNode
  \/ NoNodeButton
  \/ UpdateLabels
  \/ DeleteSelectedNode
  \/ NoDelete
  \/ AddEdgeBuilder
  \/ ClearEdgesBuilder
  \/ NoEdgeButton
  \/ AddUpdateNode
  \/ DeleteNode
  \/ AddEdgeViz
  \/ ClearEdgesViz
  \/ Export
  \/ LoadGraphJson
  \/ NoUpload
  \/ GraphPreview

Spec == Init /\ [][Next]_vars

\* ===================================================================
\* Properties
\* ===================================================================
IsUnique(ids) == Cardinality(Range(ids)) = Len(ids)

Incident(e, id) == e.source = id \/ e.target = id

\* the k-th smallest element of a finite set of naturals
Kth(S, k) == CHOOSE i \in S : Cardinality({j \in S : j <= i}) = k

\* s is exactly the elements of old at the positions keep, in their order
KeptInOrder(s, old, keep) ==
  /\ Len(s) = Cardinality(keep)
  /\ \A k \in 1..Len(s) : s[k] = old[Kth(keep, k)]

EdgesReferenceNodes(ns, es) ==
  \A i \in 1..Len(es) :
    /\ es[i].source \in Range(get_node_ids(ns))
    /\ es[i].target \in Range(get_node_ids(ns))

\* C1: in the builder variant, without JSON import, no two nodes of the
\* node list have the same id after any sequence of add / delete operations.
C1_UniqueGeneratedIds ==
  (variant = "builder" /\ ~imported) => IsUnique(get_node_ids(nodes))

\* C2: in both variants, immediately after deleting the node with id X no
\* edge has source X or target X, every other edge is kept in its original
\* relative order, and every node with another id is kept.
C2_DeleteCascades ==
  (last.op = "delete_node" /\ last.msg = "") =>
    /\ \A i \in 1..Len(edges) : ~Incident(edges[i], last.id)
    /\ KeptInOrder(edges, prev.edges,
                   {i \in 1..Len(prev.edges) : ~Incident(prev.edges[i], last.id)})
    /\ KeptInOrder(nodes, prev.nodes,
                   {i \in 1..Len(prev.nodes) : prev.nodes[i].id # last.id})

C2_Witness ==
  /\ last.op = "delete_node" /\ last.msg = ""
  /\ Len(edges) < Len(prev.edges)
  /\ edges # <<>>
  /\ Len(nodes) < Len(prev.nodes)
  /\ nodes # <<>>

\* C3: in both variants, without JSON import, in every reachable state each
\* edge's source and target is the id of a node of the node list.
C3_NoDanglingEdges ==
  ~imported => EdgesReferenceNodes(nodes, edges)

C3_Witness ==
  /\ ~imported
  /\ last.op = "delete_node" /\ last.msg = ""
  /\ prev.edges # <<>>
  /\ edges = <<>>
  /\ nodes # <<>>

\* The neighbours of x as the claim C4 describes them: the target of each
\* edge with source x, and the source of each bidirected or undirected edge
\* with target x, in edge order.
RECURSIVE ClaimedNeighbours(_, _, _)
ClaimedNeighbours(es, x, i) ==
  IF i > Len(es) THEN <<>>
  ELSE (IF es[i].source = x THEN <<es[i].target>> ELSE <<>>)
       \o (IF /\ "direction" \in DOMAIN es[i]
              /\ es[i].direction \in {"bidirected", "undirected"}
              /\ es[i].target = x
           THEN <<es[i].source>> ELSE <<>>)
       \o ClaimedNeighbours(es, x, i + 1)

\* C4: in the builder variant, for every store whose edges all reference
\* existing node ids, build_adjacency_list returns one key per node id and
\* the list of x is the target of every edge with source x plus the source
\* of every bidirected / undirected edge with target x, in edge order,
\* parallel edges repeated.
C4_AdjacencyAsStated ==
  (variant = "builder" /\ EdgesReferenceNodes(nodes, edges)) =>
    LET r == build_adjacency_list(variant, nodes, edges)
    IN /\ r.ok
       /\ DOMAIN r.adj = Range(get_node_ids(nodes))
       /\ \A x \in DOMAIN r.adj : r.adj[x] = ClaimedNeighbours(edges, x, 1)

\* C5: in the builder variant an "Add edge" request with source = target is
\* rejected with a warning and leaves nodes and edges unchanged; without
\* JSON import no reachable state holds an edge with source = target.
C5_SelfLoopRejected ==
  /\ (variant = "builder" /\ last.op = "add_edge" /\ last.id = last.arg) =>
       (last.msg = "warning" /\ Store = prev)
  /\ (variant = "builder" /\ ~imported) =>
       \A i \in 1..Len(edges) : edges[i].source # edges[i].target

C5_Witness ==
  /\ variant = "builder" /\ last.op = "add_edge" /\ last.id = last.arg
  /\ last.msg = "warning"
  /\ edges # <<>>
  /\ ~imported

\* C6: after any sequence of operations, JSON import of inconsistent data
\* included, computing the derived views on the store raises no error.
C6_ViewsNeverRaise ==
  /\ build_adjacency_list(variant, nodes, edges).ok
  /\ last.msg # "exception"

\* C7: in both variants, when the uploaded document cannot be parsed (not
\* JSON, or a top-level value that is not an object) an error is shown and
\* nodes and edges are both exactly as before the import.
C7_FailedImportKeepsStore ==
  (last.op = "import" /\ Files[last.id].t # "object") =>
    (last.msg = "error" /\ Store = prev)

C7_Witness ==
  /\ last.op = "import" /\ last.msg = "error"
  /\ nodes # <<>> /\ edges # <<>>
  /\ Files[last.id].t = "array"

\* C8: in both variants, at the end of every script run the JSON document
\* displayed equals the serialization of the store as it is at that render.
C8_ShownJsonIsCurrent ==
  (last.op = "render" /\ last.msg = "") =>
    LET r == build_adjacency_list(variant, nodes, edges)
    IN r.ok /\ shown = json_dumps(nodes, edges, r.adj)

\* C9: for every reachable store that serializes, importing the serialized
\* document yields the same node sequence and the same edge sequence.
C9_RoundTrip ==
  LET r == build_adjacency_list(variant, nodes, edges)
  IN r.ok =>
       LET g == LoadGraph(<<>>, <<>>, json_dumps(nodes, edges, r.adj))
       IN g.msg = "success" /\ g.nodes = nodes /\ g.edges = edges

C9_Witness ==
  /\ pc = "import"
  /\ json_str = json_dumps(nodes, edges, build_adjacency_list(variant, nodes, edges).adj)
  /\ Len(nodes) >= 2 /\ Len(edges) >= 2
  /\ \E i \in 1..Len(nodes) : nodes[i].label = "go"
  /\ \E i \in 1..Len(edges) : edges[i].label = "go"

\* C10: in the viz variant "Add / Update node" with an existing id replaces
\* the label of the existing node (by the label, or by the id when the label
\* is empty) and changes neither the number or order of nodes nor the edges;
\* with a new id it appends exactly one node; without JSON import node ids
\* stay unique.  (An id is non-empty when it is not blank, as the handler
\* tests it; a blank id is refused.)
C10_UpsertKeepsIdsUnique ==
  /\ (variant = "viz" /\ last.op = "add_update_node" /\ Strip(last.id) = "") =>
       (last.msg = "warning" /\ Store = prev)
  /\ (variant = "viz" /\ last.op = "add_update_node" /\ Strip(last.id) # "") =>
       /\ last.msg = ""
       /\ edges = prev.edges
       /\ IF last.id \in Range(get_node_ids(prev.nodes))
          THEN /\ get_node_ids(nodes) = get_node_ids(prev.nodes)
               /\ \E i \in 1..Len(nodes) :
                    /\ nodes[i].id = last.id
                    /\ nodes[i].label = (IF last.arg = "" THEN last.id ELSE last.arg)
                    /\ \A j \in 1..Len(nodes) : j # i => nodes[j] = prev.nodes[j]
          ELSE /\ Len(nodes) = Len(prev.nodes) + 1
               /\ SubSeq(nodes, 1, Len(prev.nodes)) = prev.nodes
               /\ nodes[Len(nodes)].id = last.id
               /\ nodes[Len(nodes)].label = (IF last.arg = "" THEN last.id ELSE last.arg)
  /\ (variant = "viz" /\ ~imported) => IsUnique(get_node_ids(nodes))

C10_Witness ==
  /\ variant = "viz" /\ last.op = "add_update_node" /\ last.msg = ""
  /\ ~imported
  /\ last.id \in Range(get_node_ids(prev.nodes))
  /\ nodes # prev.nodes
  /\ Len(nodes) = 2
  /\ edges # <<>>
====
